---- MODULE Spec2Model ----
(***************************************************************************)
(* Model of the two MCP tool servers of the repository:                    *)
(*   - the weather server   (src/src/index.ts)                             *)
(*   - the github-diff server (src/unnamed/part_000)                       *)
(* Each server answers ListTools and CallTool requests.  A CallTool        *)
(* handler runs synchronously up to its first await, issues its outbound   *)
(* HTTP call(s), and is resumed when the awaited promise settles.          *)
(*                                                                         *)
(* Strings that the code takes apart (repo, commit message, sha, dt_txt,   *)
(* city) are sequences of one-character strings; strings that are only     *)
(* passed through are TLA+ strings.  Temperatures and wind speeds are      *)
(* integers in tenths of a unit so that Math.round is computed.            *)
(***************************************************************************)
EXTENDS Integers, Sequences, FiniteSets, TLC

\* WEATHER_API_KEY  the module constant read from the environment at load
\* GITHUB_TOKEN     process.env.GITHUB_TOKEN, read when the call is issued
\* running          the process has not died of an unhandled rejection
\* pc               "idle", or "await" while a CallTool handler is suspended
\* request          request.params of the last CallTool request
\* calls            the outbound calls of that request, with their promises
\* order            the indices of calls, in the order they settled
\* response         what the last request handler returned or threw
\* nreq, failures   requests received; times a catch block built the answer
VARIABLES WEATHER_API_KEY, GITHUB_TOKEN, running, pc, request, calls,
          order, response, nreq, failures

vars == <<WEATHER_API_KEY, GITHUB_TOKEN, running, pc, request, calls,
          order, response, nreq, failures>>

\* ---------------------------------------------------------------- bounds
MaxRequests == 3
MaxCommits == 2

\* ------------------------------------------------------- string helpers
Min(a, b) == IF a < b THEN a ELSE b

Abs(x) == IF x < 0 THEN -x ELSE x

\* Math.round on a value given in tenths: round half up (towards +infinity)
Round(x10) == (x10 + 5) \div 10

\* Math.round(speed * 3.6) with speed given in tenths of m/s
RoundKmh(speed10) == (speed10 * 36 + 50) \div 100

RECURSIVE SplitAcc(_, _, _, _)
SplitAcc(s, sep, cur, acc) ==
  IF s = <<>> THEN Append(acc, cur)
  ELSE IF Head(s) = sep
       THEN SplitAcc(Tail(s), sep, <<>>, Append(acc, cur))
       ELSE SplitAcc(Tail(s), sep, Append(cur, Head(s)), acc)

\* String.prototype.split with a one-character separator
Split(s, sep) == SplitAcc(s, sep, <<>>, <<>>)

\* String.prototype.startsWith
StartsWith(s, p) == Len(s) >= Len(p) /\ SubSeq(s, 1, Len(p)) = p

\* String.prototype.substring(0, n)
Substring0(s, n) == SubSeq(s, 1, Min(n, Len(s)))

UndefinedStr == <<"u", "n", "d", "e", "f", "i", "n", "e", "d">>

\* the value of args.f converted to a string, as a template literal or
\* encodeURIComponent converts it: a missing field reads as "undefined"
Str(args, f) == IF f \in DOMAIN args THEN args[f] ELSE UndefinedStr

RECURSIVE encodeURIComponent(_)
encodeURIComponent(s) ==
  IF s = <<>> THEN <<>>
  ELSE (CASE Head(s) = " " -> <<"%", "2", "0">>
          [] Head(s) = "/" -> <<"%", "2", "F">>
          [] Head(s) = "," -> <<"%", "2", "C">>
          [] OTHER -> <<Head(s)>>) \o encodeURIComponent(Tail(s))

\* ------------------------------------------------------------ envelopes
\* A text is [tag, body]: tag is the literal prefix of the template and
\* body what follows it.
ErrorObj(msg) == [instanceOfError |-> TRUE, message |-> msg]

TypeErrorReading(prop) ==
  ErrorObj(<<"Cannot read properties of undefined (reading '", prop, "')">>)

\* error instanceof Error ? error.message : "Unknown error occurred"
errorMessage(error) ==
  IF error.instanceOfError THEN error.message
  ELSE <<"Unknown error occurred">>

SuccessEnvelope_flagged(text) ==
  [kind |-> "envelope",
   env |-> [content |-> <<[type |-> "text", text |-> text]>>, isError |-> TRUE]]

\* return { content: [{ type: "text", text: result }] }
SuccessEnvelope(text) ==
  [kind |-> "envelope", env |-> [content |-> <<[type |-> "text", text |-> text]>>]]

CatchEnvelope_rethrow(error) == [kind |-> "thrown", error |-> error]

\* the catch block of a CallTool handler
CatchEnvelope(error) ==
  [kind |-> "envelope",
   env |-> [content |-> <<[type |-> "text",
                           text |-> [tag |-> "Error: ", body |-> errorMessage(error)]]>>,
            isError |-> TRUE]]

\* a throw that leaves the handler: the rejection reaches the protocol layer
Thrown(error) == [kind |-> "thrown", error |-> error]

NoResponse == [kind |-> "none"]

\* ------------------------------------------------------- weather server
WeatherCatalog_reordered ==
  << [name |-> "compare_weather", required |-> <<"city1", "city2">>],
     [name |-> "get_current_weather", required |-> <<"city">>],
     [name |-> "get_weather_forecast", required |-> <<"city">>] >>

\* the tools literal of the ListTools handler (name and required fields)
WeatherCatalog ==
  << [name |-> "get_current_weather", required |-> <<"city">>],
     [name |-> "get_weather_forecast", required |-> <<"city">>],
     [name |-> "compare_weather", required |-> <<"city1", "city2">>] >>

NoKeyText ==
  [tag |-> "Error: ",
   body |-> <<"OPENWEATHER_API_KEY environment variable not set. Please get a free API key from https://openweathermap.org/api">>]

KeyMissing_never(key) == FALSE

\* !WEATHER_API_KEY
KeyMissing(key) == key = ""

DefaultDays == 3

\* (args.days as number) || 3
DaysOf(args) ==
  IF "days" \in DOMAIN args /\ args.days # 0 THEN args.days ELSE DefaultDays

\* the url of fetchWeather
WeatherUrl(args, f) ==
  [path |-> "/weather", q |-> encodeURIComponent(Str(args, f)),
   appid |-> WEATHER_API_KEY, cnt |-> 0]

\* the url of fetchForecast
ForecastUrl(args, days) ==
  [path |-> "/forecast", q |-> encodeURIComponent(Str(args, "city")),
   appid |-> WEATHER_API_KEY, cnt |-> days * 8]

\* an outbound call just issued: its promise is pending, and a rejection of
\* it is handled, because the promise is awaited or given to Promise.all on
\* the spot
NewCall(api, url) ==
  [api |-> api, url |-> url, st |-> "fetching", val |-> "none", handled |-> TRUE]

\* the object fetchWeather returns, from the parsed body
WeatherDataOf(data) ==
  [temperature |-> Round(data.main.temp),
   feels_like |-> Round(data.main.feels_like),
   condition |-> data.weather[1].main,
   description |-> data.weather[1].description,
   humidity |-> data.main.humidity,
   wind_speed |-> RoundKmh(data.wind.speed),
   city |-> data.name,
   country |-> data.sys.country]

RECURSIVE ReduceDaily(_, _)
\* data.list.reduce(...): the first item of every date, in list order
ReduceDaily(list, acc) ==
  IF list = <<>> THEN acc
  ELSE LET item == Head(list)
           date == Split(item.dt_txt, " ")[1]
       IN  IF \E k \in 1..Len(acc) : acc[k].date = date
           THEN ReduceDaily(Tail(list), acc)
           ELSE ReduceDaily(Tail(list),
                  Append(acc, [date |-> date,
                               temp_min |-> item.main.temp_min,
                               temp_max |-> item.main.temp_max,
                               condition |-> item.weather[1].main,
                               description |-> item.weather[1].description]))

\* the object fetchForecast returns, from the parsed body
ForecastOf(data, days) ==
  LET dailyData == ReduceDaily(data.list, <<>>)
  IN  [city |-> data.city.name, country |-> data.city.country,
       forecast |-> SubSeq(dailyData, 1, Min(days, Len(dailyData)))]

\* the result string of case "get_current_weather"
CurrentText(weather) == [tag |-> "Current Weather in ", body |-> weather]

\* the result string of case "get_weather_forecast"
ForecastText(days, forecast) ==
  [tag |-> "-Day Weather Forecast for ",
   body |-> [days |-> days, city |-> forecast.city, country |-> forecast.country,
             lines |-> [k \in 1..Len(forecast.forecast) |->
                          [index |-> k,
                           date |-> forecast.forecast[k].date,
                           min |-> Round(forecast.forecast[k].temp_min),
                           max |-> Round(forecast.forecast[k].temp_max),
                           condition |-> forecast.forecast[k].condition,
                           description |-> forecast.forecast[k].description]]]]

\* Math.abs(weather1.temperature - weather2.temperature)
tempDiff(weather1, weather2) == Abs(weather1.temperature - weather2.temperature)

warmer_inverted(weather1, weather2) ==
  IF weather1.temperature < weather2.temperature THEN weather1.city ELSE weather2.city

\* weather1.temperature > weather2.temperature ? weather1.city : weather2.city
warmer(weather1, weather2) ==
  IF weather1.temperature > weather2.temperature THEN weather1.city ELSE weather2.city

\* the result string of case "compare_weather"
CompareText(weather1, weather2) ==
  [tag |-> "Weather Comparison:",
   body |-> [first |-> weather1, second |-> weather2,
             warmer |-> warmer(weather1, weather2),
             tempDiff |-> tempDiff(weather1, weather2)]]


\* ---------------------------------------------------- github-diff server
\* the tools literal of the ListTools handler (name and required fields)
GithubCatalog ==
  << [name |-> "git_changes_between_versions",
      required |-> <<"repo", "fromVersion", "toVersion">>] >>

MergePrefix == <<"M", "e", "r", "g", "e">>

ShaLen == 7

IsListed_all(c) == TRUE

\* the filter predicate: !c.commit.message.startsWith("Merge")
IsListed(c) == ~StartsWith(c.commit.message, MergePrefix)

\* the map function: the listed form of one upstream commit
ListedCommit(c) ==
  [sha |-> Substring0(c.sha, ShaLen),
   author |-> c.commit.author.name,
   message |-> Split(c.commit.message, "\n")[1],
   url |-> c.html_url]

\* response.data.commits.filter(...).map(...)
CommitsOf(data) ==
  LET kept == SelectSeq(data.commits, IsListed)
  IN  [k \in 1..Len(kept) |-> ListedCommit(kept[k])]

\* JSON.stringify({repository, fromVersion, toVersion, totalCommits, commits}):
\* a key whose value is undefined is left out
GitText(args, commits) ==
  [tag |-> "{",
   body |-> [k \in ({"repository", "totalCommits", "commits"}
                    \cup ({"fromVersion", "toVersion"} \cap DOMAIN args)) |->
               CASE k = "repository" -> args.repo
                 [] k = "totalCommits" -> Len(commits)
                 [] k = "commits" -> commits
                 [] OTHER -> args[k]]]

\* process.env.X interpolated into a template literal
Unset == "<unset>"
EnvStr(v) == IF v = Unset THEN "undefined" ELSE v

\* process.env.OPENWEATHER_API_KEY || ""
OrEmpty(v) == IF v = Unset THEN "" ELSE v

\* the url and headers of the axios.get call
GithubUrl(owner, repoName, args) ==
  [path |-> "/repos", owner |-> owner, repoName |-> repoName,
   from |-> Str(args, "fromVersion"), to |-> Str(args, "toVersion"),
   authorization |-> <<"Bearer ", EnvStr(GITHUB_TOKEN)>>]

\* -------------------------------------------- inputs and upstream replies
EmptyArgs == [k \in {} |-> 0]

WeatherNames ==
  {"get_current_weather", "get_weather_forecast", "compare_weather", "no_such_tool"}

GithubNames == {"git_changes_between_versions", "no_such_tool"}

WeatherArgs ==
  << EmptyArgs,
     [city |-> <<"A">>],
     [city |-> <<"N", " ", "Y">>, days |-> 0],
     [city |-> <<"A">>, days |-> 2],
     [days |-> 2],
     [city1 |-> <<"A">>],
     [city2 |-> <<"B">>],
     [city1 |-> <<"A">>, city2 |-> <<"B">>],
     [city1 |-> <<"B">>, city2 |-> <<"A">>] >>

GithubArgs ==
  << EmptyArgs,
     [repo |-> <<"o", "/", "r">>, fromVersion |-> "v1", toVersion |-> "v2"],
     [repo |-> <<"o", "/", "r">>, toVersion |-> "v2"],
     [repo |-> <<"o", "/", "r">>, fromVersion |-> "v1"],
     [fromVersion |-> "v1", toVersion |-> "v2"],
     [repo |-> <<"o", "r">>, fromVersion |-> "v1", toVersion |-> "v2"],
     [repo |-> <<"/", "r">>, fromVersion |-> "v1", toVersion |-> "v2"],
     [repo |-> <<"o", "/">>, fromVersion |-> "v1", toVersion |-> "v2"] >>

FetchOutcomes ==
  { [rejects |-> TRUE, ok |-> FALSE, status |-> "0", statusText |-> ""],
    [rejects |-> FALSE, ok |-> FALSE, status |-> "404", statusText |-> "Not Found"],
    [rejects |-> FALSE, ok |-> TRUE, status |-> "200", statusText |-> "OK"] }

WB(n, t, f, s) ==
  [main |-> [temp |-> t, feels_like |-> f, humidity |-> 50],
   weather |-> <<[main |-> "Clouds", description |-> "few clouds"]>>,
   wind |-> [speed |-> s], name |-> n, sys |-> [country |-> "XX"]]

\* bodies of the current-weather endpoint; the last one has no "main"
WeatherBodies ==
  << WB("Alpha", 100, 92, 30), WB("Beta", 150, 156, 55),
     WB("Gamma", 146, 140, 0), WB("Delta", -5, -15, 12),
     [name |-> "Alpha"] >>

FI(d, lo, hi) ==
  [dt_txt |-> <<"D", d, " ", "0", "0">>,
   main |-> [temp_min |-> lo, temp_max |-> hi],
   weather |-> <<[main |-> "Rain", description |-> "light rain"]>>]

\* bodies of the forecast endpoint; the last one has no "list"
ForecastBodies ==
  << [list |-> <<FI("1", 95, 124), FI("1", 80, 130), FI("2", -15, 5), FI("3", 46, 55)>>,
      city |-> [name |-> "Alpha", country |-> "XX"]],
     [list |-> <<>>, city |-> [name |-> "Beta", country |-> "XX"]],
     [city |-> [name |-> "Alpha", country |-> "XX"]] >>

GC(sha, who, msg, u) ==
  [sha |-> sha, commit |-> [author |-> [name |-> who], message |-> msg], html_url |-> u]

CommitPool ==
  { GC(<<"a", "1", "b", "2", "c", "3", "d", "4", "e">>, "ann",
       <<"M", "e", "r", "g", "e", " ", "x">>, "u1"),
    GC(<<"f", "0", "f", "1", "f", "2", "f", "3">>, "bob",
       <<"F", "i", "x", " ", "a", "\n", "M", "e", "r", "g", "e">>, "u2"),
    GC(<<"0", "1", "2", "3", "4">>, "cyd",
       <<"m", "e", "r", "g", "e", " ", "y">>, "u3"),
    GC(<<"9", "8", "7", "6", "5", "4", "3", "2">>, "dee",
       <<"M", "e", "r", "g">>, "u4") }

SeqsUpTo(S, n) == UNION { [1..k -> S] : k \in 0..n }

\* replies of axios.get: a rejection (network error or non-2xx status) or
\* response.data, which for the last shape has no "commits"
AxiosOutcomes ==
  { [rejects |-> TRUE, message |-> <<"Network Error">>],
    [rejects |-> TRUE, message |-> <<"Request failed with status code ", "404">>] }

GithubData == { [commits |-> cs] : cs \in SeqsUpTo(CommitPool, MaxCommits) }

MalformedGithubData == [message |-> "Not a comparison"]


\* ------------------------------------------------------------ the servers
Settled(c) == c.st \in {"resolved", "rejected"}

\* the promise the handler awaits, after call i has moved: a single call, or
\* Promise.all over the calls, which rejects with the first rejection and
\* resolves once every call has resolved
PromiseAll(cs, i) ==
  IF cs[i].st = "rejected" THEN "rejected"
  ELSE IF \A j \in 1..Len(cs) : cs[j].st = "resolved" THEN "resolved"
  ELSE "pending"

WeatherResult_swapped(req, cs) ==
  CASE req.name = "get_current_weather" -> SuccessEnvelope(CurrentText(cs[1].val))
    [] req.name = "get_weather_forecast" ->
         SuccessEnvelope(ForecastText(DaysOf(req.args), cs[1].val))
    [] req.name = "compare_weather" ->
         SuccessEnvelope(CompareText(cs[Len(cs)].val, cs[1].val))

\* the statements after the await of each case of the weather switch
WeatherResult(req, cs) ==
  CASE req.name = "get_current_weather" -> SuccessEnvelope(CurrentText(cs[1].val))
    [] req.name = "get_weather_forecast" ->
         SuccessEnvelope(ForecastText(DaysOf(req.args), cs[1].val))
    [] req.name = "compare_weather" ->
         SuccessEnvelope(CompareText(cs[1].val, cs[2].val))

\* the statements after the await of the github handler
GithubResult(req, cs) ==
  IF "commits" \in DOMAIN cs[1].val
  THEN SuccessEnvelope(GitText(req.args, CommitsOf(cs[1].val)))
  ELSE CatchEnvelope(TypeErrorReading("filter"))

\* r was built by a catch block
IsCaught(r) == r.kind = "envelope" /\ "isError" \in DOMAIN r.env

\* The handler is resumed when the promise it awaits settles; a call that
\* settles after its handler has returned has no continuation left.
Resume(cs, i) ==
  LET p == PromiseAll(cs, i)
      r == IF p = "rejected" THEN CatchEnvelope(cs[i].val)
           ELSE IF request.srv = "weather" THEN WeatherResult(request, cs)
           ELSE GithubResult(request, cs)
  IN  /\ calls' = cs
      /\ order' = IF Settled(cs[i]) THEN Append(order, i) ELSE order
      /\ running' = (running /\ (cs[i].st = "rejected" => cs[i].handled))
      /\ IF pc = "await" /\ p # "pending"
         THEN /\ pc' = "idle"
              /\ response' = r
              /\ failures' = IF IsCaught(r) THEN failures + 1 ELSE failures
         ELSE UNCHANGED <<pc, response, failures>>
      /\ UNCHANGED <<WEATHER_API_KEY, GITHUB_TOKEN, request, nreq>>

\* the handler returns (or throws) before any await
Return(r) ==
  /\ pc' = "idle"
  /\ response' = r
  /\ calls' = <<>>
  /\ failures' = IF IsCaught(r) THEN failures + 1 ELSE failures

\* the handler issues its outbound calls and awaits them
Await(cs) ==
  /\ pc' = "await"
  /\ response' = NoResponse
  /\ calls' = cs
  /\ UNCHANGED failures

Accept(req) ==
  /\ running
  /\ pc = "idle"
  /\ nreq < MaxRequests
  /\ nreq' = nreq + 1
  /\ request' = req
  /\ order' = <<>>
  /\ UNCHANGED <<WEATHER_API_KEY, GITHUB_TOKEN, running>>

Catalog(srv) == IF srv = "weather" THEN WeatherCatalog ELSE GithubCatalog

\* ListTools handler of either server
ListTools(srv) ==
  /\ running
  /\ pc = "idle"
  /\ nreq < MaxRequests
  /\ nreq' = nreq + 1
  /\ response' = [kind |-> "tools", srv |-> srv, tools |-> Catalog(srv)]
  /\ UNCHANGED <<WEATHER_API_KEY, GITHUB_TOKEN, running, pc, request, calls,
                 order, failures>>

\* CallTool handler of the weather server, up to its first await
CallToolWeather(name, hasArgs, args) ==
  /\ Accept([srv |-> "weather", name |-> name, hasArgs |-> hasArgs, args |-> args])
  /\ IF ~hasArgs
     THEN Return(Thrown(ErrorObj(<<"Arguments are required for this tool">>)))
     ELSE IF KeyMissing(WEATHER_API_KEY)
     THEN Return(SuccessEnvelope(NoKeyText))
     ELSE CASE name = "get_current_weather" ->
                 Await(<<NewCall("weather", WeatherUrl(args, "city"))>>)
            [] name = "get_weather_forecast" ->
                 Await(<<NewCall("forecast", ForecastUrl(args, DaysOf(args)))>>)
            [] name = "compare_weather" ->
                 Await(<<NewCall("weather", WeatherUrl(args, "city1")),
                         NewCall("weather", WeatherUrl(args, "city2"))>>)
            [] OTHER ->
                 Return(CatchEnvelope(ErrorObj(<<"Unknown tool: ", name>>)))

\* CallTool handler of the github-diff server, up to its await; the tool
\* name is read from the request and not used
CallToolGithub(name, hasArgs, args) ==
  /\ Accept([srv |-> "github", name |-> name, hasArgs |-> hasArgs, args |-> args])
  /\ IF ~hasArgs
     THEN Return(Thrown(ErrorObj(<<"Arguments are required for this tool">>)))
     ELSE IF "repo" \notin DOMAIN args
     THEN Return(CatchEnvelope(TypeErrorReading("split")))
     ELSE LET parts == Split(args.repo, "/")
              owner == parts[1]
          IN  IF owner = <<>> \/ Len(parts) < 2 \/ parts[2] = <<>>
              THEN Return(CatchEnvelope(ErrorObj(<<"Invalid repo format. Use owner/repo">>)))
              ELSE Await(<<NewCall("github", GithubUrl(owner, parts[2], args))>>)

\* fetch(url) settles: it rejects, or yields a response; fetchWeather and
\* fetchForecast throw on !response.ok and otherwise await response.json()
FetchSettle(i, o) ==
  /\ running
  /\ i \in 1..Len(calls)
  /\ calls[i].st = "fetching"
  /\ calls[i].api \in {"weather", "forecast"}
  /\ LET c == calls[i]
         api == IF c.api = "weather" THEN "Weather API error: " ELSE "Forecast API error: "
         c2 == IF o.rejects
               THEN [c EXCEPT !.st = "rejected", !.val = ErrorObj(<<"fetch failed">>)]
               ELSE IF ~o.ok
               THEN [c EXCEPT !.st = "rejected",
                              !.val = ErrorObj(<<api, o.status, " ", o.statusText>>)]
               ELSE [c EXCEPT !.st = "parsing"]
     IN  Resume([calls EXCEPT ![i] = c2], i)

\* response.json() settles: it rejects on a body that is not JSON, or yields
\* data, from which the rest of fetchWeather / fetchForecast builds its result
JsonSettle(i, parses, data) ==
  /\ running
  /\ i \in 1..Len(calls)
  /\ calls[i].st = "parsing"
  /\ LET c == calls[i]
         c2 == IF ~parses
               THEN [c EXCEPT !.st = "rejected",
                              !.val = ErrorObj(<<"Unexpected token < in JSON at position 0">>)]
               ELSE IF c.api = "weather"
               THEN IF "main" \in DOMAIN data
                    THEN [c EXCEPT !.st = "resolved", !.val = WeatherDataOf(data)]
                    ELSE [c EXCEPT !.st = "rejected", !.val = TypeErrorReading("temp")]
               ELSE IF "list" \in DOMAIN data
                    THEN [c EXCEPT !.st = "resolved",
                                   !.val = ForecastOf(data, c.url.cnt \div 8)]  \* cnt = days * 8
                    ELSE [c EXCEPT !.st = "rejected", !.val = TypeErrorReading("reduce")]
     IN  Resume([calls EXCEPT ![i] = c2], i)

\* axios.get settles: it rejects, or yields a response whose data is d
AxiosSettle(rejects, msg, d) ==
  /\ running
  /\ Len(calls) = 1
  /\ calls[1].st = "fetching"
  /\ calls[1].api = "github"
  /\ LET c == calls[1]
         c2 == IF rejects
               THEN [c EXCEPT !.st = "rejected", !.val = ErrorObj(msg)]
               ELSE [c EXCEPT !.st = "resolved", !.val = d]
     IN  Resume([calls EXCEPT ![1] = c2], 1)

NoRequest == [srv |-> "none", name |-> "", hasArgs |-> FALSE, args |-> EmptyArgs]

Init ==
  /\ WEATHER_API_KEY \in {OrEmpty(v) : v \in {Unset, "", "k3y"}}
  /\ GITHUB_TOKEN \in {Unset, "ghp_t0ken"}
  /\ running = TRUE
  /\ pc = "idle"
  /\ request = NoRequest
  /\ calls = <<>>
  /\ order = <<>>
  /\ response = NoResponse
  /\ nreq = 0
  /\ failures = 0

Next ==
  \/ \E srv \in {"weather", "github"} : ListTools(srv)
  \/ \E name \in WeatherNames : CallToolWeather(name, FALSE, EmptyArgs)
  \/ \E name \in WeatherNames, k \in 1..Len(WeatherArgs) :
       CallToolWeather(name, TRUE, WeatherArgs[k])
  \/ \E name \in GithubNames : CallToolGithub(name, FALSE, EmptyArgs)
  \/ \E name \in GithubNames, k \in 1..Len(GithubArgs) :
       CallToolGithub(name, TRUE, GithubArgs[k])
  \/ \E i \in 1..2, o \in FetchOutcomes : FetchSettle(i, o)
  \/ \E i \in 1..2 : JsonSettle(i, FALSE, EmptyArgs)
  \/ \E i \in 1..2, k \in 1..Len(WeatherBodies) : JsonSettle(i, TRUE, WeatherBodies[k])
  \/ \E i \in 1..2, k \in 1..Len(ForecastBodies) : JsonSettle(i, TRUE, ForecastBodies[k])
  \/ \E o \in AxiosOutcomes : AxiosSettle(TRUE, o.message, EmptyArgs)
  \/ \E d \in GithubData \cup {MalformedGithubData} : AxiosSettle(FALSE, <<>>, d)

Spec == Init /\ [][Next]_vars


\* ------------------------------------------------------------ properties
\* the last CallTool request has been answered and its answer is in response
Answered == pc = "idle" /\ request.srv # "none" /\ response.kind \in {"envelope", "thrown"}

IsErrorEnvelope(r) ==
  r.kind = "envelope" /\ "isError" \in DOMAIN r.env /\ r.env.isError = TRUE

IsPlainEnvelope(r) == r.kind = "envelope" /\ "isError" \notin DOMAIN r.env

OneTextBlock(r) == Len(r.env.content) = 1 /\ r.env.content[1].type = "text"

TextOf(r) == r.env.content[1].text

CatalogNames(srv) == {Catalog(srv)[k].name : k \in 1..Len(Catalog(srv))}

Rejected == {i \in 1..Len(calls) : calls[i].st = "rejected"}

\* every outbound call of the request came back with a well-formed reply
AllSucceeded ==
  /\ calls # <<>>
  /\ \A i \in 1..Len(calls) :
       /\ calls[i].st = "resolved"
       /\ calls[i].api = "github" => "commits" \in DOMAIN calls[i].val

\* C1: a CallTool request that carries an arguments object is never answered
\* by an error thrown out of the handler; when an outbound call failed (it
\* rejected, had a non-success status or a malformed body) the answer is an
\* envelope with one text block "Error: <message of a failed call>" and
\* isError = true; and the server keeps running and accepts the next request.
C1_FailuresAreCaught ==
  /\ running
  /\ (pc = "idle" /\ nreq < MaxRequests) =>
       (ENABLED ListTools("weather") /\ ENABLED ListTools("github"))
  /\ (Answered /\ request.hasArgs) => response.kind = "envelope"
  /\ (Answered /\ request.hasArgs /\ (Rejected # {} \/ (calls # <<>> /\ ~AllSucceeded
                                                         /\ \A i \in 1..Len(calls) : Settled(calls[i])))) =>
       /\ IsErrorEnvelope(response)
       /\ OneTextBlock(response)
       /\ TextOf(response).tag = "Error: "
       /\ \/ \E i \in Rejected : TextOf(response).body = calls[i].val.message
          \/ /\ Rejected = {}
             /\ TextOf(response).body =
                  <<"Cannot read properties of undefined (reading '", "filter", "')">>

\* a failed outbound call was answered by an error envelope after an earlier
\* failure had been caught
C1_Witness ==
  /\ Answered /\ request.hasArgs /\ Rejected # {}
  /\ IsErrorEnvelope(response)
  /\ failures >= 2

\* both credentials are configured
Configured == WEATHER_API_KEY # "" /\ GITHUB_TOKEN # Unset

\* C2 (as claimed, in its most favourable case: an arguments object is given
\* and the credentials are configured): a CallTool request whose tool name is
\* not in the server's catalog is answered by an error envelope with the
\* message "Unknown tool: <name>", and no outbound call is issued.
C2_UnknownToolRejected ==
  (request.srv # "none" /\ request.hasArgs /\ Configured
     /\ request.name \notin CatalogNames(request.srv)) =>
    /\ pc = "idle"
    /\ calls = <<>>
    /\ Answered =>
         /\ IsErrorEnvelope(response)
         /\ TextOf(response).body = <<"Unknown tool: ", request.name>>

\* C3 (as claimed): a CallTool request without an arguments object is
\* answered by an envelope with isError = true, before any outbound call.
C3_NoArgsIsEnvelope ==
  (Answered /\ ~request.hasArgs) => (IsErrorEnvelope(response) /\ calls = <<>>)

RequiredOf(srv, name) ==
  LET k == CHOOSE k \in 1..Len(Catalog(srv)) : Catalog(srv)[k].name = name
  IN  {Catalog(srv)[k].required[j] : j \in 1..Len(Catalog(srv)[k].required)}

\* C4 (as claimed, with the credentials configured): a CallTool request whose
\* arguments object omits a required field of the tool is answered by an
\* envelope with isError = true whose message names the missing field, and
\* no outbound call is issued.
C4_MissingFieldRejected ==
  (request.srv # "none" /\ request.hasArgs /\ Configured
     /\ request.name \in CatalogNames(request.srv)) =>
    \A f \in RequiredOf(request.srv, request.name) \ DOMAIN request.args :
      /\ pc = "idle"
      /\ calls = <<>>
      /\ Answered =>
           /\ IsErrorEnvelope(response)
           /\ \E k \in 1..Len(TextOf(response).body) : TextOf(response).body[k] = f

\* C5: whatever requests came before, ListTools answers with the registered
\* descriptors, each once, in registration order.
C5_ListToolsFixed ==
  response.kind = "tools" =>
    LET names == [k \in 1..Len(response.tools) |-> response.tools[k].name]
    IN  /\ response.srv = "weather" =>
              names = <<"get_current_weather", "get_weather_forecast", "compare_weather">>
        /\ response.srv = "github" => names = <<"git_changes_between_versions">>

\* a listing answered after a CallTool failure had been caught
C5_Witness ==
  /\ response.kind = "tools" /\ response.srv = "weather"
  /\ failures >= 1 /\ nreq >= 3

IsCompare == request.srv = "weather" /\ request.name = "compare_weather" /\ Len(calls) = 2

\* C6 (as claimed): in compare_weather an envelope is built only after both
\* fetchWeather calls have completed.
C6_EnvelopeAfterBoth ==
  (IsCompare /\ Answered) => \A i \in 1..2 : Settled(calls[i])

\* C6 (amended): the two calls are issued together, the first for city1 and
\* the second for city2; while neither has failed and one is unfinished the
\* handler waits; a success envelope is built only when both have resolved
\* and gives the first call's result first and the second's second, whatever
\* the completion order; as soon as one call fails the answer is an error
\* envelope carrying the first failure, the other call possibly unfinished.
C6_JointAwait ==
  IsCompare =>
    /\ calls[1].url.q = encodeURIComponent(Str(request.args, "city1"))
    /\ calls[2].url.q = encodeURIComponent(Str(request.args, "city2"))
    /\ pc = "await" => (response.kind = "none" /\ Rejected = {}
                          /\ \E i \in 1..2 : ~Settled(calls[i]))
    /\ Answered =>
         IF Rejected = {}
         THEN /\ \A i \in 1..2 : calls[i].st = "resolved"
              /\ IsPlainEnvelope(response)
              /\ TextOf(response).body.first = calls[1].val
              /\ TextOf(response).body.second = calls[2].val
         ELSE /\ IsErrorEnvelope(response)
              /\ \E k \in 1..Len(order) :
                   /\ order[k] \in Rejected
                   /\ \A j \in 1..(k - 1) : order[j] \notin Rejected
                   /\ TextOf(response).body = calls[order[k]].val.message

\* both calls succeeded, the second one first, with different cities
C6_Witness ==
  /\ IsCompare /\ Answered /\ Rejected = {}
  /\ order = <<2, 1>>
  /\ calls[1].val.city # calls[2].val.city

\* C7: without a weather API key, a CallTool request with an arguments
\* object for a tool of the weather catalog issues no outbound call and is
\* answered by one text block telling to get a key, without isError.
C7_NoKeyInformational ==
  (request.srv = "weather" /\ request.hasArgs /\ WEATHER_API_KEY = ""
     /\ request.name \in CatalogNames("weather")) =>
    /\ pc = "idle"
    /\ calls = <<>>
    /\ Answered =>
         /\ IsPlainEnvelope(response)
         /\ OneTextBlock(response)
         /\ TextOf(response) = NoKeyText

C7_Witness ==
  /\ Answered /\ request.srv = "weather" /\ request.hasArgs
  /\ WEATHER_API_KEY = "" /\ request.name = "get_current_weather"
  /\ "city" \in DOMAIN request.args
  /\ IsPlainEnvelope(response)

\* the literal prefix of the output of each tool
TagOf(req) ==
  CASE req.srv = "github" -> "{"
    [] req.name = "get_current_weather" -> "Current Weather in "
    [] req.name = "get_weather_forecast" -> "-Day Weather Forecast for "
    [] req.name = "compare_weather" -> "Weather Comparison:"

\* C8: when every outbound call of a CallTool request succeeded, the answer
\* is an envelope without isError that has exactly one block, of type
\* "text", holding the output of the requested tool.
C8_SuccessEnvelope ==
  (Answered /\ AllSucceeded) =>
    /\ IsPlainEnvelope(response)
    /\ OneTextBlock(response)
    /\ TextOf(response).tag = TagOf(request)
    /\ request.name = "get_current_weather" => TextOf(response).body = calls[1].val
    /\ request.name = "get_weather_forecast" =>
         /\ TextOf(response).body.city = calls[1].val.city
         /\ Len(TextOf(response).body.lines) = Len(calls[1].val.forecast)
    /\ request.srv = "github" => TextOf(response).body.repository = request.args.repo

\* a forecast of two days was answered
C8_Witness ==
  /\ Answered /\ AllSucceeded
  /\ request.name = "get_weather_forecast"
  /\ IsPlainEnvelope(response)
  /\ Len(TextOf(response).body.lines) = 2

\* the message starts with the five characters M e r g e
IsMerge(c) ==
  LET m == c.commit.message
  IN  Len(m) >= 5 /\ m[1] = "M" /\ m[2] = "e" /\ m[3] = "r" /\ m[4] = "g" /\ m[5] = "e"

NotMerge(c) == ~IsMerge(c)

\* C9: on a successful upstream reply the result lists the upstream commits
\* whose message does not start with "Merge", in upstream order, and
\* totalCommits is the number of commits listed.
C9_NonMergeCommits ==
  (Answered /\ request.srv = "github" /\ AllSucceeded) =>
    LET kept == SelectSeq(calls[1].val.commits, NotMerge)
        listed == TextOf(response).body.commits
    IN  /\ Len(listed) = Len(kept)
        /\ \A k \in 1..Len(kept) : listed[k].url = kept[k].html_url
        /\ TextOf(response).body.totalCommits = Len(listed)

\* two upstream commits, a merge and then a non-merge: one commit listed
C9_Witness ==
  /\ Answered /\ request.srv = "github" /\ AllSucceeded
  /\ Len(calls[1].val.commits) = 2
  /\ IsMerge(calls[1].val.commits[1]) /\ NotMerge(calls[1].val.commits[2])
  /\ TextOf(response).body.totalCommits = 1
  /\ Len(TextOf(response).body.commits) = 1

\* C10: when both fetches of compare_weather succeeded with rounded
\* temperatures t1 and t2, the output names as warmer the city of the higher
\* temperature and gives |t1 - t2| as the difference.
C10_WarmerAndDifference ==
  (IsCompare /\ Answered /\ AllSucceeded) =>
    LET t1 == calls[1].val.temperature
        t2 == calls[2].val.temperature
        out == TextOf(response).body
    IN  /\ out.tempDiff = (IF t1 >= t2 THEN t1 - t2 ELSE t2 - t1)
        /\ t1 > t2 => out.warmer = calls[1].val.city
        /\ t2 > t1 => out.warmer = calls[2].val.city

\* city1 at 10 and city2 at 15: city2 is warmer by 5
C10_Witness ==
  /\ IsCompare /\ Answered /\ AllSucceeded
  /\ calls[1].val.temperature = 10 /\ calls[2].val.temperature = 15
  /\ TextOf(response).body.warmer = calls[2].val.city
  /\ calls[1].val.city # calls[2].val.city
  /\ TextOf(response).body.tempDiff = 5

====
